---- MODULE Spec2Model ----
(***************************************************************************)
(* A model of the CSE287 ray tracer core: RayTracer (camera, render loop,  *)
(* closest-hit search), Plane::findIntersect and the LightSource family.   *)
(*                                                                         *)
(* Numbers.  The C++ code computes in double.  The model computes exactly  *)
(* in the numbers a + b*sqrt(r) (a, b rational, r a square-free natural),  *)
(* extended by the IEEE specials +inf, -inf and NaN.  This set is closed   *)
(* under every operation the modelled code performs on the inputs drawn    *)
(* below (glm::normalize of a rational vector yields components q*sqrt(r));*)
(* rounding error and the sign of zero are not modelled.                   *)
(***************************************************************************)
EXTENDS Integers, Sequences, FiniteSets, TLC

(***************************************************************************)
(* Representation.  A rational is <<n, d>> with d > 0 and gcd(n, d) = 1.   *)
(* A double is [k, a, b, r]: the number a + b*sqrt(r) when k = "fin" (a, b *)
(* rational, r square-free, and r = 1 exactly when b = 0, so that equal    *)
(* numbers are equal records); k = "inf", "ninf", "nan" are the IEEE       *)
(* specials.  A dvec3 is a tuple of three doubles.                         *)
(***************************************************************************)
QZero == <<0, 1>>
Special(kind) == [k |-> kind, a |-> QZero, b |-> QZero, r |-> 1]
INFINITY == Special("inf")
NegInfinity == Special("ninf")
NaN == Special("nan")
Unsupported == CHOOSE u \in {} : TRUE   \* evaluating it stops TLC

RECURSIVE Gcd(_, _)
Gcd(m, n) == IF n = 0 THEN m ELSE Gcd(n, m % n)

QReduce(n, d, g) == IF d < 0 THEN <<(-n) \div g, (-d) \div g>> ELSE <<n \div g, d \div g>>

\* the rational n/d (d # 0) in lowest terms
Q(n, d) ==
    IF n = 0 THEN QZero
    ELSE IF d = 1 THEN <<n, 1>>
    ELSE QReduce(n, d, Gcd(IF n < 0 THEN -n ELSE n, IF d < 0 THEN -d ELSE d))

\* n = s*s*r with r square-free, by trial division from k on: <<s, r>>
RECURSIVE SquareLoop(_, _, _)
SquareLoop(n, k, s) ==
    IF k > n \div k THEN <<s, n>>
    ELSE IF n % (k * k) = 0 THEN SquareLoop(n \div (k * k), k, s * k)
    ELSE SquareLoop(n, k + 1, s)

\* the canonical record of an/ad + (bn/bd)*sqrt(r), r square-free
Fin(an, ad, bn, bd, r) ==
    IF bn = 0 THEN [k |-> "fin", a |-> Q(an, ad), b |-> QZero, r |-> 1]
    ELSE [k |-> "fin", a |-> Q(an, ad), b |-> Q(bn, bd), r |-> r]

Rat(n, d) == Fin(n, d, 0, 1, 1)
Num(i) == [k |-> "fin", a |-> <<i, 1>>, b |-> QZero, r |-> 1]
Zero == Num(0)
One == Num(1)

IsFinite(z) == z.k = "fin"
IsNaN(z) == z.k = "nan"

IntSign(i) == IF i > 0 THEN 1 ELSE IF i < 0 THEN -1 ELSE 0

\* the sign of X - r*m for naturals X, m and r >= 1, without forming r*m
SignMinus(X, r, m) ==
    IF X % r = 0 /\ m = X \div r THEN 0
    ELSE IF m <= X \div r THEN 1
    ELSE -1

\* the sign of rho^2 - r
SquareMinus(rho, r) == SignMinus(rho[1] * rho[1], r, rho[2] * rho[2])

\* the sign of a finite a + b*sqrt(r), exactly: a and b of opposite signs are
\* compared through (a/b)^2 and r
Sign(z) ==
    IF z.b[1] = 0 THEN IntSign(z.a[1])
    ELSE IF z.a[1] = 0 \/ IntSign(z.a[1]) = IntSign(z.b[1]) THEN IntSign(z.b[1])
    ELSE IntSign(z.a[1]) * SquareMinus(Q(z.a[1] * z.b[2], z.a[2] * z.b[1]), z.r)

\* the sign of any number but NaN
SignX(z) == IF z.k = "inf" THEN 1 ELSE IF z.k = "ninf" THEN -1 ELSE Sign(z)

Neg(z) ==
    IF z.k = "fin" THEN [z EXCEPT !.a = <<-z.a[1], z.a[2]>>, !.b = <<-z.b[1], z.b[2]>>]
    ELSE IF z.k = "inf" THEN NegInfinity
    ELSE IF z.k = "ninf" THEN INFINITY
    ELSE NaN

Add(x, y) ==
    IF x.k = "nan" \/ y.k = "nan" THEN NaN
    ELSE IF x.k = "fin" /\ y.k = "fin" THEN
        IF x.r = y.r \/ y.b[1] = 0
        THEN Fin(x.a[1] * y.a[2] + y.a[1] * x.a[2], x.a[2] * y.a[2],
                 x.b[1] * y.b[2] + y.b[1] * x.b[2], x.b[2] * y.b[2], x.r)
        ELSE IF x.b[1] = 0
        THEN Fin(x.a[1] * y.a[2] + y.a[1] * x.a[2], x.a[2] * y.a[2], y.b[1], y.b[2], y.r)
        ELSE Unsupported
    ELSE IF x.k = "fin" THEN y
    ELSE IF y.k = "fin" THEN x
    ELSE IF x.k = y.k THEN x
    ELSE NaN

Sub(x, y) == Add(x, Neg(y))

\* (bx*sqrt(rx)) * (by*sqrt(ry)) = bx*by*g*sqrt((rx/g)*(ry/g)) for g = gcd(rx, ry)
MulRoots(x, y, g) ==
    IF (x.r \div g) * (y.r \div g) = 1
    THEN Fin(x.b[1] * y.b[1] * g, x.b[2] * y.b[2], 0, 1, 1)
    ELSE Fin(0, 1, x.b[1] * y.b[1] * g, x.b[2] * y.b[2], (x.r \div g) * (y.r \div g))

Mul(x, y) ==
    IF x.k = "nan" \/ y.k = "nan" THEN NaN
    ELSE IF x.k = "fin" /\ y.k = "fin" THEN
        IF y.b[1] = 0
        THEN Fin(x.a[1] * y.a[1], x.a[2] * y.a[2], x.b[1] * y.a[1], x.b[2] * y.a[2], x.r)
        ELSE IF x.b[1] = 0
        THEN Fin(x.a[1] * y.a[1], x.a[2] * y.a[2], x.a[1] * y.b[1], x.a[2] * y.b[2], y.r)
        ELSE IF x.a[1] = 0 /\ y.a[1] = 0
        THEN MulRoots(x, y, Gcd(x.r, y.r))
        ELSE Unsupported
    ELSE IF SignX(x) * SignX(y) = 0 THEN NaN
    ELSE IF SignX(x) * SignX(y) > 0 THEN INFINITY
    ELSE NegInfinity

\* 1/y for a finite y # 0 that is rational or a rational multiple of a root
Inverse(y) ==
    IF y.b[1] = 0 THEN Fin(y.a[2], y.a[1], 0, 1, 1)
    ELSE IF y.a[1] = 0 THEN Fin(0, 1, y.b[2], y.b[1] * y.r, y.r)
    ELSE Unsupported

Div(x, y) ==
    IF x.k = "nan" \/ y.k = "nan" THEN NaN
    ELSE IF y.k = "fin" THEN
        IF Sign(y) = 0 THEN
            (IF SignX(x) = 0 THEN NaN ELSE IF SignX(x) > 0 THEN INFINITY ELSE NegInfinity)
        ELSE IF x.k = "fin" THEN Mul(x, Inverse(y))
        ELSE IF SignX(x) * Sign(y) > 0 THEN INFINITY ELSE NegInfinity
    ELSE IF x.k = "fin" THEN Zero
    ELSE NaN

\* x < y as IEEE decides it: false when either side is NaN
Less(x, y) ==
    IF x.k = "nan" \/ y.k = "nan" THEN FALSE
    ELSE IF x.k = "inf" \/ y.k = "ninf" THEN FALSE
    ELSE IF x.k = "ninf" \/ y.k = "inf" THEN TRUE
    ELSE IF x.b[1] = 0 /\ y.b[1] = 0 THEN x.a[1] * y.a[2] < y.a[1] * x.a[2]
    ELSE Sign(Sub(x, y)) < 0

Greater(x, y) == Less(y, x)
LessEq(x, y) == ~IsNaN(x) /\ ~IsNaN(y) /\ ~Less(y, x)

Fabs(z) ==
    IF z.k = "nan" THEN NaN
    ELSE IF z.k # "fin" THEN INFINITY
    ELSE IF Sign(z) < 0 THEN Neg(z) ELSE z

\* sqrt(n/d) = sqrt(n*d)/d from the square parts <<s, r>> of n and of d
SqrtParts(d, sn, sd) ==
    IF sn[2] * sd[2] = 1 THEN Fin(sn[1] * sd[1], d, 0, 1, 1)
    ELSE Fin(0, 1, sn[1] * sd[1], d, sn[2] * sd[2])

\* sqrt of a rational (all the modelled code takes it of)
Sqrt(z) ==
    IF z.k = "nan" \/ z.k = "ninf" THEN NaN
    ELSE IF z.k = "inf" THEN INFINITY
    ELSE IF z.b[1] # 0 THEN Unsupported
    ELSE IF z.a[1] < 0 THEN NaN
    ELSE IF z.a[1] = 0 THEN Zero
    ELSE SqrtParts(z.a[2], SquareLoop(z.a[1], 2, 1), SquareLoop(z.a[2], 2, 1))

Vec(c1, c2, c3) == <<Num(c1), Num(c2), Num(c3)>>
VAdd(p, q) == [i \in 1..3 |-> Add(p[i], q[i])]
VSub(p, q) == [i \in 1..3 |-> Sub(p[i], q[i])]
VNeg(p) == [i \in 1..3 |-> Neg(p[i])]
VScale(s, p) == [i \in 1..3 |-> Mul(s, p[i])]
Sum3(p) == Add(Add(p[1], p[2]), p[3])
Dot(p, q) == Sum3([i \in 1..3 |-> Mul(p[i], q[i])])
Cross(p, q) ==
    [i \in 1..3 |-> Sub(Mul(p[(i % 3) + 1], q[((i + 1) % 3) + 1]),
                        Mul(q[(i % 3) + 1], p[((i + 1) % 3) + 1]))]
Length(p) == Sqrt(Dot(p, p))
\* glm::normalize(v) = v * inversesqrt(dot(v, v)); the zero vector gives NaNs
Normalize(p) == VScale(Div(One, Length(p)), p)
VFinite(p) == \A i \in 1..3 : IsFinite(p[i])

(***************************************************************************)
(* color, Material, Ray, HitRecord.                                        *)
(***************************************************************************)
Color(r, g, b) == <<Rat(r, 10), Rat(g, 10), Rat(b, 10)>>   \* tenths per channel
BLACK == Color(0, 0, 0)
WHITE == Color(10, 10, 10)
ColorAdd(c, d) == VAdd(c, d)
ColorScale(s, c) == VScale(s, c)

Material(emissive, diffuse) == [emissive |-> emissive, diffuse |-> diffuse]
getEmisive(material) == material.emissive

Ray(origin, direct) == [origin |-> origin, direct |-> direct]

\* a default-constructed HitRecord
HitRecord ==
    [t |-> INFINITY, interceptPoint |-> Vec(0, 0, 0), surfaceNormal |-> Vec(0, 0, 0),
     material |-> Material(BLACK, BLACK), uv |-> <<Rat(1, 2), Rat(1, 2)>>]

(***************************************************************************)
(* Plane.cpp                                                               *)
(***************************************************************************)
Plane(point, normal, material) ==
    [a |-> point, n |-> Normalize(normal), material |-> material]

PlaneFromVertices(vertices, material) ==
    [a |-> vertices[1],
     n |-> Normalize(Cross(VSub(vertices[3], vertices[2]), VSub(vertices[1], vertices[2]))),
     material |-> material]

\* a variant that also intersects planes seen from behind
Plane_findIntersect_twoSided(plane, ray) ==
    LET denominator == Dot(ray.direct, plane.n)
    IN  IF denominator # Zero /\ ~IsNaN(denominator)
        THEN LET t == Div(Dot(VSub(plane.a, ray.origin), plane.n), denominator)
             IN  [HitRecord EXCEPT !.surfaceNormal = plane.n,
                                   !.interceptPoint = VAdd(ray.origin, VScale(t, ray.direct)),
                                   !.t = t,
                                   !.material = plane.material]
        ELSE [HitRecord EXCEPT !.t = INFINITY]

Plane_findIntersect(plane, ray) ==
    LET denominator == Dot(ray.direct, plane.n)
    IN  IF Less(denominator, Zero)
        THEN LET t == Div(Dot(VSub(plane.a, ray.origin), plane.n), denominator)
             IN  [HitRecord EXCEPT !.surfaceNormal = plane.n,
                                   !.interceptPoint = VAdd(ray.origin, VScale(t, ray.direct)),
                                   !.t = t,
                                   !.material = plane.material]
        ELSE [HitRecord EXCEPT !.t = INFINITY]

(***************************************************************************)
(* LightSource.h                                                           *)
(***************************************************************************)
LightSource(lightColor) ==
    [type |-> "LightSource", ambientLightColor |-> BLACK, diffuseLightColor |-> lightColor,
     specularLightColor |-> WHITE, enabled |-> TRUE,
     lightPosition |-> Vec(0, 0, 0), lightDirection |-> Vec(0, 0, 0),
     spotDirection |-> Vec(0, 0, 0), cutOffCosineRadians |-> Zero]

PositionalLight(position, lightColor) ==
    [LightSource(lightColor) EXCEPT !.type = "PositionalLight", !.lightPosition = position]

DirectionalLight(direction, lightColor) ==
    [LightSource(lightColor) EXCEPT !.type = "DirectionalLight",
                                    !.lightDirection = Normalize(direction)]

SpotLight(position, direction, cutOffCosineRadians, colorOfLight) ==
    [PositionalLight(position, colorOfLight) EXCEPT
        !.type = "SpotLight", !.spotDirection = Normalize(direction),
        !.cutOffCosineRadians = cutOffCosineRadians]

Disabled(light) == [light EXCEPT !.enabled = FALSE]

LightSource_getLocalIllumination(light, eyeVector, position, normal, material, uv) == BLACK

\* a variant that shades: the light's diffuse colour, unless the light is disabled
PositionalLight_getLocalIllumination_lit(light, eyeVector, position, normal, material, uv) ==
    IF light.enabled THEN light.diffuseLightColor ELSE BLACK

PositionalLight_getLocalIllumination(light, eyeVector, position, normal, material, uv) == BLACK

DirectionalLight_getLocalIllumination(light, eyeVector, position, normal, material, uv) == BLACK

\* SpotLight::getLocalIllumination, line 207
negLightVec(light, position) == VNeg(Normalize(VSub(light.lightPosition, position)))

\* glm::dot(negLightVec, spotDirection), lines 209 and 210
spotCosine(light, position) == Dot(negLightVec(light, position), light.spotDirection)

\* line 209
fallOffFactor(light, position) ==
    Sub(One, Div(Sub(One, spotCosine(light, position)),
                 Sub(One, light.cutOffCosineRadians)))

\* a variant whose cone includes its edge
SpotLight_inCone_inclusive(light, position) ==
    LessEq(light.cutOffCosineRadians, spotCosine(light, position))

\* the condition of line 210
SpotLight_inCone(light, position) ==
    Greater(spotCosine(light, position), light.cutOffCosineRadians)

SpotLight_getLocalIllumination(light, eyeVector, position, normal, material, uv) ==
    IF SpotLight_inCone(light, position)
    THEN ColorScale(fallOffFactor(light, position),
                    PositionalLight_getLocalIllumination(light, eyeVector, position,
                                                         normal, material, uv))
    ELSE BLACK

\* virtual dispatch on the light's dynamic type
getLocalIllumination(light, eyeVector, position, normal, material, uv) ==
    CASE light.type = "SpotLight" ->
             SpotLight_getLocalIllumination(light, eyeVector, position, normal, material, uv)
      [] light.type = "PositionalLight" ->
             PositionalLight_getLocalIllumination(light, eyeVector, position, normal, material, uv)
      [] light.type = "DirectionalLight" ->
             DirectionalLight_getLocalIllumination(light, eyeVector, position, normal, material, uv)
      [] OTHER ->
             LightSource_getLocalIllumination(light, eyeVector, position, normal, material, uv)

getLightVector(light, position) ==
    CASE light.type \in {"PositionalLight", "SpotLight"} ->
             Normalize(VSub(light.lightPosition, position))
      [] light.type = "DirectionalLight" -> light.lightDirection
      [] OTHER -> Vec(0, 0, 0)

getLightDistance(light, position) ==
    CASE light.type \in {"PositionalLight", "SpotLight"} ->
             Length(VSub(light.lightPosition, position))
      [] light.type = "DirectionalLight" -> INFINITY
      [] OTHER -> Zero

(***************************************************************************)
(* RayTracer.cpp: the pure parts.  cam is the RayTracer's camera state.    *)
(***************************************************************************)
\* the loop of findClosestIntersection, from surface i on
RECURSIVE closestFrom(_, _, _, _)
closestFrom(surfaces, ray, i, closestHit) ==
    IF i > Len(surfaces) THEN closestHit
    ELSE LET temp == Plane_findIntersect(surfaces[i], ray)
         IN  closestFrom(surfaces, ray, i + 1,
                         IF Less(temp.t, closestHit.t) THEN temp ELSE closestHit)

\* a variant of the loop that stops at the first surface hit
RECURSIVE firstHitFrom(_, _, _)
firstHitFrom(surfaces, ray, i) ==
    IF i > Len(surfaces) THEN [HitRecord EXCEPT !.t = INFINITY]
    ELSE IF Less(Plane_findIntersect(surfaces[i], ray).t, INFINITY)
    THEN Plane_findIntersect(surfaces[i], ray)
    ELSE firstHitFrom(surfaces, ray, i + 1)

findClosestIntersection_firstHit(surfaces, ray) == firstHitFrom(surfaces, ray, 1)

\* a variant of the loop that replaces the best record on t <= best
RECURSIVE lastWinsFrom(_, _, _, _)
lastWinsFrom(surfaces, ray, i, closestHit) ==
    IF i > Len(surfaces) THEN closestHit
    ELSE LET temp == Plane_findIntersect(surfaces[i], ray)
         IN  lastWinsFrom(surfaces, ray, i + 1,
                          IF LessEq(temp.t, closestHit.t) /\ IsFinite(temp.t)
                          THEN temp ELSE closestHit)

findClosestIntersection_lastWins(surfaces, ray) ==
    lastWinsFrom(surfaces, ray, 1, [HitRecord EXCEPT !.t = INFINITY])

findClosestIntersection(surfaces, ray) ==
    closestFrom(surfaces, ray, 1, [HitRecord EXCEPT !.t = INFINITY])

\* the loop over lights of traceRay, from light i on
RECURSIVE lightsFrom(_, _, _, _, _)
lightsFrom(lights, ray, closesHit, i, totalColor) ==
    IF i > Len(lights) THEN totalColor
    ELSE lightsFrom(lights, ray, closesHit, i + 1,
                    ColorAdd(totalColor,
                             getLocalIllumination(lights[i], VNeg(ray.direct),
                                                  closesHit.interceptPoint,
                                                  closesHit.surfaceNormal,
                                                  closesHit.material, closesHit.uv)))

traceRay(surfaces, lights, defaultColor, ray, recursionLevel) ==
    LET closesHit == findClosestIntersection(surfaces, ray)
    IN  IF Less(closesHit.t, INFINITY)
        THEN lightsFrom(lights, ray, closesHit, 1, getEmisive(closesHit.material))
        ELSE defaultColor

\* a variant that samples the lower left corner of the pixel
getImagePlaneCoordinates_corner(cam, x, y) ==
    <<Add(Mul(Num(x), Div(Sub(cam.rightLimit, cam.leftLimit), cam.nx)), cam.leftLimit),
      Add(Mul(Num(y), Div(Sub(cam.topLimit, cam.bottomLimit), cam.ny)), cam.bottomLimit)>>

getImagePlaneCoordinates(cam, x, y) ==
    <<Add(Mul(Add(Num(x), Rat(1, 2)), Div(Sub(cam.rightLimit, cam.leftLimit), cam.nx)),
          cam.leftLimit),
      Add(Mul(Add(Num(y), Rat(1, 2)), Div(Sub(cam.topLimit, cam.bottomLimit), cam.ny)),
          cam.bottomLimit)>>

getOrthoViewRay(cam, x, y) ==
    LET uv == getImagePlaneCoordinates(cam, x, y)
    IN  Ray(VAdd(VAdd(cam.eye, VScale(uv[1], cam.u)), VScale(uv[2], cam.v)),
            Normalize(VNeg(cam.w)))

getPerspectiveViewRay(cam, x, y) ==
    LET uv == getImagePlaneCoordinates(cam, x, y)
    IN  Ray(cam.eye,
            Normalize(VAdd(VAdd(VScale(cam.distToPlane, VNeg(cam.w)),
                                VScale(uv[1], cam.u)),
                           VScale(uv[2], cam.v))))

(***************************************************************************)
(* Bounds and the inputs the model draws from.                             *)
(***************************************************************************)
MaxSurfaces == 2
MaxLights == 1
MaxWidth == 2
MaxHeight == 2

gray == Color(5, 5, 5)
matA == Material(Color(10, 0, 0), Color(1, 1, 1))
matB == Material(Color(0, 10, 0), Color(2, 2, 2))
matC == Material(Color(0, 0, 10), Color(3, 3, 3))

\* z = 0 facing +z (twice, with different materials), z = 8 facing +z, a plane
\* tilted about the y axis through the origin, and the floor y = -1
PlaneSet ==
    {Plane(Vec(0, 0, 0), Vec(0, 0, 2), matA),
     PlaneFromVertices(<<Vec(0, 0, 0), Vec(1, 0, 0), Vec(0, 1, 0)>>, matB),
     Plane(Vec(0, 0, 8), Vec(0, 0, 1), matC),
     Plane(Vec(0, 0, 0), Vec(3, 0, 4), matC),
     Plane(Vec(0, -1, 0), Vec(0, 1, 0), matB)}

LightSet ==
    {LightSource(Color(3, 3, 3)),
     PositionalLight(Vec(0, 3, 4), Color(10, 10, 10)),
     Disabled(DirectionalLight(Vec(0, 0, 2), Color(10, 10, 10))),
     SpotLight(Vec(0, 3, 4), Vec(0, 0, -3), Rat(4, 5), Color(10, 10, 10)),
     SpotLight(Vec(0, 0, 4), Vec(0, 0, -1), Rat(1, 2), Color(10, 10, 10)),
     SpotLight(Vec(0, 0, 0), Vec(0, 0, -1), One, Color(10, 10, 10))}

SeqsUpTo(S, n) == UNION {[1..m -> S] : m \in 0..n}

\* <<viewPosition, viewingDirection, up>>; up is never parallel to the direction
FrameSet ==
    {<<Vec(0, 0, 5), Vec(0, 0, -2), Vec(0, 1, 0)>>,
     <<Vec(1, 0, 3), Vec(0, 0, -3), Vec(2, 0, 0)>>}

\* view plane heights; a negative one exercises fabs; none is zero
ViewPlaneHeights == {Num(2), Num(-4)}

\* vertical fields of view in degrees, each with tan(radians(fov) / 2)
TanOfHalf(degrees) == CASE degrees = 90 -> One
FieldsOfView == {90}

WindowSizes == (1..MaxWidth) \X (1..MaxHeight)

(***************************************************************************)
(* State.                                                                  *)
(***************************************************************************)
VARIABLES
    surfaces,       \* RayTracer::surfaces, in iteration order
    lights,         \* RayTracer::lights, in iteration order
    defaultColor,   \* RayTracer::defaultColor
    colorBuffer,    \* the frame sink: [width, height]
    cam,            \* eye, u, v, w, the viewport limits, nx, ny, distToPlane,
                    \* renderPerspectiveView
    setup,          \* which configuration calls have been made: [frame, view, arg]
    pc,             \* "idle", or "render" while raytraceScene runs
    x, y,           \* the loop counters of raytraceScene
    vr,             \* the view ray of the pixel traced last in this pass
    vrColor,        \* the colour traceRay returned for it
    setPixelCalls   \* the setPixel calls of the pass in progress, in order

vars == <<surfaces, lights, defaultColor, colorBuffer, cam, setup, pc, x, y,
          vr, vrColor, setPixelCalls>>

scene == <<surfaces, lights, defaultColor>>
locals == <<x, y, vr, vrColor, setPixelCalls>>

NoRay == Ray(Vec(0, 0, 0), Vec(0, 0, 0))

\* RayTracer::RayTracer initialises colorBuffer, defaultColor and recursionDepth
\* only; the camera members hold placeholders until the first configuration
\* calls, and raytraceScene is not called before them
recursionDepth == 2

Constructed(sizes) ==
    /\ surfaces \in SeqsUpTo(PlaneSet, MaxSurfaces)
    /\ lights \in SeqsUpTo(LightSet, MaxLights)
    /\ defaultColor = gray
    /\ \E size \in sizes : colorBuffer = [width |-> size[1], height |-> size[2]]
    /\ cam = [eye |-> Vec(0, 0, 0), u |-> Vec(0, 0, 0), v |-> Vec(0, 0, 0),
              w |-> Vec(0, 0, 0), topLimit |-> Zero, bottomLimit |-> Zero,
              leftLimit |-> Zero, rightLimit |-> Zero, nx |-> Zero, ny |-> Zero,
              distToPlane |-> Zero, renderPerspectiveView |-> FALSE]
    /\ setup = [frame |-> FALSE, view |-> "none", arg |-> Zero]
    /\ pc = "idle"
    /\ x = 0
    /\ y = 0
    /\ vr = NoRay
    /\ vrColor = BLACK
    /\ setPixelCalls = <<>>

Init == Constructed(WindowSizes)

(***************************************************************************)
(* Actions.                                                                *)
(***************************************************************************)
setCameraFrame(viewPosition, viewingDirection, up) ==
    /\ pc = "idle"
    /\ LET w1 == Normalize(VNeg(viewingDirection))
           u1 == Normalize(Cross(up, w1))
           v1 == Normalize(Cross(w1, u1))
       IN  cam' = [cam EXCEPT !.eye = viewPosition, !.w = w1, !.u = u1, !.v = v1]
    /\ setup' = [setup EXCEPT !.frame = TRUE]
    /\ UNCHANGED <<scene, colorBuffer, pc, locals>>

calculatePerspectiveViewingParameters(verticalFieldOfViewDegrees) ==
    /\ pc = "idle"
    /\ LET nx1 == Num(colorBuffer.width)
           ny1 == Num(colorBuffer.height)
           topLimit1 == One
           rightLimit1 == Mul(topLimit1, Div(nx1, ny1))
       IN  cam' = [cam EXCEPT !.nx = nx1, !.ny = ny1,
                              !.topLimit = topLimit1,
                              !.bottomLimit = Neg(topLimit1),
                              !.distToPlane =
                                  Div(topLimit1, TanOfHalf(verticalFieldOfViewDegrees)),
                              !.rightLimit = rightLimit1,
                              !.leftLimit = Neg(rightLimit1),
                              !.renderPerspectiveView = TRUE]
    /\ setup' = [setup EXCEPT !.view = "perspective",
                              !.arg = Num(verticalFieldOfViewDegrees)]
    /\ UNCHANGED <<scene, colorBuffer, pc, locals>>

\* a variant that leaves the projection flag as it was
calculateOrthographicViewingParameters_keepsFlag(viewPlaneHeight) ==
    /\ pc = "idle"
    /\ LET topLimit1 == Div(Fabs(viewPlaneHeight), Num(2))
           rightLimit1 == Mul(topLimit1,
                              Div(Num(colorBuffer.width), Num(colorBuffer.height)))
       IN  cam' = [cam EXCEPT !.topLimit = topLimit1,
                              !.rightLimit = rightLimit1,
                              !.leftLimit = Neg(rightLimit1),
                              !.bottomLimit = Neg(topLimit1),
                              !.nx = Num(colorBuffer.width),
                              !.ny = Num(colorBuffer.height),
                              !.distToPlane = Zero]
    /\ setup' = [setup EXCEPT !.view = "orthographic", !.arg = viewPlaneHeight]
    /\ UNCHANGED <<scene, colorBuffer, pc, locals>>

calculateOrthographicViewingParameters(viewPlaneHeight) ==
    /\ pc = "idle"
    /\ LET topLimit1 == Div(Fabs(viewPlaneHeight), Num(2))
           rightLimit1 == Mul(topLimit1,
                              Div(Num(colorBuffer.width), Num(colorBuffer.height)))
       IN  cam' = [cam EXCEPT !.topLimit = topLimit1,
                              !.rightLimit = rightLimit1,
                              !.leftLimit = Neg(rightLimit1),
                              !.bottomLimit = Neg(topLimit1),
                              !.nx = Num(colorBuffer.width),
                              !.ny = Num(colorBuffer.height),
                              !.distToPlane = Zero,
                              !.renderPerspectiveView = FALSE]
    /\ setup' = [setup EXCEPT !.view = "orthographic", !.arg = viewPlaneHeight]
    /\ UNCHANGED <<scene, colorBuffer, pc, locals>>

\* raytraceScene is entered
raytraceScene_begin ==
    /\ pc = "idle"
    /\ setup.frame
    /\ setup.view # "none"
    /\ pc' = "render"
    /\ y' = 0
    /\ x' = 0
    /\ UNCHANGED <<scene, colorBuffer, cam, setup, vr, vrColor, setPixelCalls>>

\* a variant of the iteration that stores the ray's origin as the eye
raytraceScene_pixel_movesEye ==
    /\ pc = "render"
    /\ y < colorBuffer.height
    /\ x < colorBuffer.width
    /\ LET ray == IF cam.renderPerspectiveView THEN getPerspectiveViewRay(cam, x, y)
                  ELSE getOrthoViewRay(cam, x, y)
           c == traceRay(surfaces, lights, defaultColor, ray, recursionDepth)
       IN  /\ vr' = ray
           /\ vrColor' = c
           /\ setPixelCalls' = Append(setPixelCalls, [x |-> x, y |-> y, c |-> c])
           /\ cam' = [cam EXCEPT !.eye = ray.origin]
    /\ x' = x + 1
    /\ UNCHANGED <<scene, colorBuffer, setup, pc, y>>

\* one iteration of the inner loop: lines 71 to 78
raytraceScene_pixel ==
    /\ pc = "render"
    /\ y < colorBuffer.height
    /\ x < colorBuffer.width
    /\ LET ray == IF cam.renderPerspectiveView THEN getPerspectiveViewRay(cam, x, y)
                  ELSE getOrthoViewRay(cam, x, y)
           c == traceRay(surfaces, lights, defaultColor, ray, recursionDepth)
       IN  /\ vr' = ray
           /\ vrColor' = c
           /\ setPixelCalls' = Append(setPixelCalls, [x |-> x, y |-> y, c |-> c])
    /\ x' = x + 1
    /\ UNCHANGED <<scene, colorBuffer, cam, setup, pc, y>>

\* a variant of the row step that does not restart x
raytraceScene_row_keepsX ==
    /\ pc = "render"
    /\ y < colorBuffer.height
    /\ x >= colorBuffer.width
    /\ y' = y + 1
    /\ UNCHANGED <<scene, colorBuffer, cam, setup, pc, x, vr, vrColor, setPixelCalls>>

\* the inner loop ends: y++ and x = 0
raytraceScene_row ==
    /\ pc = "render"
    /\ y < colorBuffer.height
    /\ x >= colorBuffer.width
    /\ y' = y + 1
    /\ x' = 0
    /\ UNCHANGED <<scene, colorBuffer, cam, setup, pc, vr, vrColor, setPixelCalls>>

\* the outer loop ends and raytraceScene returns; its locals go out of scope
raytraceScene_end ==
    /\ pc = "render"
    /\ y >= colorBuffer.height
    /\ pc' = "idle"
    /\ x' = 0
    /\ y' = 0
    /\ vr' = NoRay
    /\ vrColor' = BLACK
    /\ setPixelCalls' = <<>>
    /\ UNCHANGED <<scene, colorBuffer, cam, setup>>

SetFrame == \E f \in FrameSet : setCameraFrame(f[1], f[2], f[3])
SetPerspective == \E fov \in FieldsOfView : calculatePerspectiveViewingParameters(fov)
SetOrthographic == \E h \in ViewPlaneHeights : calculateOrthographicViewingParameters(h)

Next ==
    \/ SetFrame
    \/ SetPerspective
    \/ SetOrthographic
    \/ raytraceScene_begin
    \/ raytraceScene_pixel
    \/ raytraceScene_row
    \/ raytraceScene_end

Spec == Init /\ [][Next]_vars

(***************************************************************************)
(* The viewing parameters alone, on frames up to 100 x 100 and an empty    *)
(* scene.                                                                  *)
(***************************************************************************)
ViewSizes ==
    {<<1, 1>>, <<2, 1>>, <<1, 2>>, <<2, 2>>, <<3, 2>>, <<2, 3>>, <<4, 4>>,
     <<100, 50>>, <<100, 100>>}

\* any double is a view plane height the caller may pass, zero included
ViewHeights == ViewPlaneHeights \cup {Zero, Rat(1, 2)}

InitView == Constructed(ViewSizes) /\ surfaces = <<>> /\ lights = <<>>

SetOrthographicView == \E h \in ViewHeights : calculateOrthographicViewingParameters(h)

NextView ==
    \/ SetFrame
    \/ SetPerspective
    \/ SetOrthographicView

SpecView == InitView /\ [][NextView]_vars

(***************************************************************************)
(* Properties.  In a state of a pass that has traced a pixel, vr is the    *)
(* ray of the pixel traced last and vrColor what traceRay returned for it. *)
(***************************************************************************)
Traced == pc = "render" /\ setPixelCalls # <<>>

\* what each surface reports for the traced ray, and what the scan returns
tOf(i) == Plane_findIntersect(surfaces[i], vr).t
closest == findClosestIntersection(surfaces, vr)

Orders(n) == {f \in [1..n -> 1..n] : \A i, j \in 1..n : f[i] = f[j] => i = j}
Permuted(f) == [i \in 1..Len(surfaces) |-> surfaces[f[i]]]

\* C1: findClosestIntersection returns the minimum of the t values the
\* surfaces report for the ray: no surface reports a smaller t, the t is one a
\* surface reported or else +infinity, it is +infinity when the list is empty
\* or no surface reports a finite t, and it is the same for every order of
\* the surface list.
C1_ClosestIsMinimum ==
    Traced =>
        /\ \A i \in 1..Len(surfaces) : ~Less(tOf(i), closest.t)
        /\ closest.t = INFINITY \/ \E i \in 1..Len(surfaces) : closest.t = tOf(i)
        /\ (\A i \in 1..Len(surfaces) : ~IsFinite(tOf(i))) => closest.t = INFINITY
        /\ \A f \in Orders(Len(surfaces)) :
               findClosestIntersection(Permuted(f), vr).t = closest.t

\* two surfaces are hit and the later one in the list is the closer one
C1_LaterSurfaceCloser ==
    /\ Traced
    /\ Len(surfaces) = 2
    /\ IsFinite(tOf(1))
    /\ Less(tOf(2), tOf(1))
    /\ closest.t = tOf(2)

\* C2: Plane::findIntersect reports t = +infinity whenever dot(direction, n)
\* >= 0, and a finite t only when the dot product is strictly negative.
C2_PlaneOneSided ==
    Traced =>
        \A i \in 1..Len(surfaces) :
            /\ ~Less(Dot(vr.direct, surfaces[i].n), Zero) => tOf(i) = INFINITY
            /\ IsFinite(tOf(i)) => Less(Dot(vr.direct, surfaces[i].n), Zero)

\* the ray meets one plane from behind, which is a miss, and hits another
C2_BackFaceMissed ==
    /\ Traced
    /\ \E i \in 1..Len(surfaces) :
           Greater(Dot(vr.direct, surfaces[i].n), Zero) /\ tOf(i) = INFINITY
    /\ \E j \in 1..Len(surfaces) : IsFinite(tOf(j))

\* the sum of the lights' contributions at the closest hit, each computed on
\* its own
RECURSIVE SumIllumination(_)
SumIllumination(i) ==
    IF i = 0 THEN BLACK
    ELSE ColorAdd(SumIllumination(i - 1),
                  getLocalIllumination(lights[i], VNeg(vr.direct), closest.interceptPoint,
                                       closest.surfaceNormal, closest.material, closest.uv))

C4_PassState ==
    pc = "render" =>
        /\ x \in 0..colorBuffer.width
        /\ y \in 0..colorBuffer.height
        /\ Len(setPixelCalls) = y * colorBuffer.width + x
        /\ y >= colorBuffer.height => x = 0
        /\ \A i \in 1..Len(setPixelCalls) :
               /\ setPixelCalls[i].x = (i - 1) % colorBuffer.width
               /\ setPixelCalls[i].y = (i - 1) \div colorBuffer.width
               /\ setPixelCalls[i].y < colorBuffer.height
        /\ y >= colorBuffer.height => Len(setPixelCalls) = colorBuffer.width * colorBuffer.height

C4_PassAdvances ==
    (pc = "render" /\ pc' = "render") =>
        y' * (colorBuffer.width + 1) + x' > y * (colorBuffer.width + 1) + x

C4_OncePerPixelRowMajor == [](C4_PassState) /\ [][C4_PassAdvances]_vars

\* the loops of a 2 x 2 pass have ended, after four calls
C4_PassComplete ==
    /\ pc = "render"
    /\ colorBuffer = [width |-> 2, height |-> 2]
    /\ y >= colorBuffer.height
    /\ Len(setPixelCalls) = 4
    /\ {<<setPixelCalls[i].x, setPixelCalls[i].y>> : i \in 1..4} = (0..1) \X (0..1)

\* the spot lights of the scene
SpotLights == {i \in 1..Len(lights) : lights[i].type = "SpotLight"}

\* C5: a SpotLight counts a point as inside its cone only when the cosine of
\* the angle between the direction to the point and the spot direction is
\* strictly greater than the cutoff cosine.  At a cosine equal to the cutoff
\* (cutoff < 1) fallOffFactor is 0, the point is outside the cone and the
\* light contributes BLACK.
C5_ConeEdgeExcluded ==
    (Traced /\ IsFinite(closest.t)) =>
        \A i \in SpotLights :
            /\ SpotLight_inCone(lights[i], closest.interceptPoint) =>
                   Less(lights[i].cutOffCosineRadians,
                        spotCosine(lights[i], closest.interceptPoint))
            /\ ( /\ spotCosine(lights[i], closest.interceptPoint) = lights[i].cutOffCosineRadians
                 /\ Less(lights[i].cutOffCosineRadians, One) ) =>
                   /\ fallOffFactor(lights[i], closest.interceptPoint) = Zero
                   /\ ~SpotLight_inCone(lights[i], closest.interceptPoint)
                   /\ SpotLight_getLocalIllumination(lights[i], VNeg(vr.direct),
                          closest.interceptPoint, closest.surfaceNormal,
                          closest.material, closest.uv) = BLACK

\* the hit point lies exactly on the edge of a spot light's cone
C5_HitOnConeEdge ==
    /\ Traced
    /\ IsFinite(closest.t)
    /\ \E i \in SpotLights :
           /\ spotCosine(lights[i], closest.interceptPoint) = lights[i].cutOffCosineRadians
           /\ Less(lights[i].cutOffCosineRadians, One)
           /\ fallOffFactor(lights[i], closest.interceptPoint) = Zero

\* the pixels of the frame
Pixels == (0..(colorBuffer.width - 1)) \X (0..(colorBuffer.height - 1))

\* the centre of the cell of pixel p when the viewport is cut into nx by ny
\* equal cells
CellCentre(p) ==
    <<Add(cam.leftLimit,
          Div(Mul(Num(2 * p[1] + 1), Sub(cam.rightLimit, cam.leftLimit)),
              Num(2 * colorBuffer.width))),
      Add(cam.bottomLimit,
          Div(Mul(Num(2 * p[2] + 1), Sub(cam.topLimit, cam.bottomLimit)),
              Num(2 * colorBuffer.height)))>>

\* the orthographic viewport and pixel mapping for the height passed last
OrthographicViewport ==
        /\ cam.topLimit = Div(Fabs(setup.arg), Num(2))
        /\ cam.bottomLimit = Neg(cam.topLimit)
        /\ cam.rightLimit = Div(Mul(cam.topLimit, Num(colorBuffer.width)),
                                Num(colorBuffer.height))
        /\ cam.leftLimit = Neg(cam.rightLimit)
        /\ \A p \in Pixels :
               /\ getImagePlaneCoordinates(cam, p[1], p[2]) = CellCentre(p)
               /\ Less(cam.leftLimit, getImagePlaneCoordinates(cam, p[1], p[2])[1])
               /\ Less(getImagePlaneCoordinates(cam, p[1], p[2])[1], cam.rightLimit)
               /\ Less(cam.bottomLimit, getImagePlaneCoordinates(cam, p[1], p[2])[2])
               /\ Less(getImagePlaneCoordinates(cam, p[1], p[2])[2], cam.topLimit)
               /\ getImagePlaneCoordinates(cam, colorBuffer.width - 1 - p[1],
                                           colorBuffer.height - 1 - p[2])
                      = <<Neg(getImagePlaneCoordinates(cam, p[1], p[2])[1]),
                          Neg(getImagePlaneCoordinates(cam, p[1], p[2])[2])>>
        /\ (setup.arg = Num(2) /\ colorBuffer = [width |-> 100, height |-> 100]) =>
               /\ cam.leftLimit = Num(-1)
               /\ cam.rightLimit = Num(1)
               /\ cam.topLimit = Num(1)
               /\ cam.bottomLimit = Num(-1)
               /\ getImagePlaneCoordinates(cam, 49, 49) = <<Rat(-1, 100), Rat(-1, 100)>>
               /\ getImagePlaneCoordinates(cam, 50, 50) = <<Rat(1, 100), Rat(1, 100)>>

C7_PassStep ==
    (pc = "render" \/ pc' = "render") =>
        /\ surfaces' = surfaces
        /\ lights' = lights
        /\ defaultColor' = defaultColor
        /\ cam' = cam
        /\ colorBuffer' = colorBuffer

C7_PassReadOnly == [][C7_PassStep]_vars

\* a pass over a scene with surfaces and lights has written a pixel
C7_PassWrotePixels ==
    /\ pc = "render"
    /\ setPixelCalls # <<>>
    /\ surfaces # <<>>
    /\ lights # <<>>
    /\ y >= colorBuffer.height

\* the surfaces whose t equals the one returned
Tied == {i \in 1..Len(surfaces) : tOf(i) = closest.t}
First(S) == CHOOSE i \in S : \A j \in S : i <= j

\* C8: when several surfaces report the same minimal t, the HitRecord
\* returned is that of the first of them in iteration order.
C8_FirstWinsTies ==
    (Traced /\ IsFinite(closest.t)) =>
        closest = Plane_findIntersect(surfaces[First(Tied)], vr)

\* two surfaces tie for the closest hit with different records
C8_TwoSurfacesTie ==
    /\ Traced
    /\ IsFinite(closest.t)
    /\ Len(surfaces) = 2
    /\ tOf(1) = tOf(2)
    /\ Plane_findIntersect(surfaces[1], vr) # Plane_findIntersect(surfaces[2], vr)
    /\ closest = Plane_findIntersect(surfaces[1], vr)

\* C9: any finite t that findClosestIntersection returns is >= 0, so that a
\* plane behind the ray origin is never the reported hit.
C9_HitInFront ==
    (Traced /\ IsFinite(closest.t)) => ~Less(closest.t, Zero)

\* C10: once a calculate...ViewingParameters call has been made, the
\* projection flag is that of the most recent call, an orthographic
\* configuration has distToPlane = 0, the viewport is symmetric about the
\* origin, nx and ny are the frame's width and height, the ray of a pixel is
\* the one of that mode, orthographic rays run along -w and perspective rays
\* start at the eye.
C10_ViewingParameters ==
    setup.view # "none" =>
        /\ cam.renderPerspectiveView = (setup.view = "perspective")
        /\ ~cam.renderPerspectiveView => cam.distToPlane = Zero
        /\ cam.leftLimit = Neg(cam.rightLimit)
        /\ cam.bottomLimit = Neg(cam.topLimit)
        /\ cam.nx = Num(colorBuffer.width)
        /\ cam.ny = Num(colorBuffer.height)
        /\ Traced =>
               vr = IF setup.view = "perspective"
                    THEN getPerspectiveViewRay(cam, setPixelCalls[Len(setPixelCalls)].x,
                                               setPixelCalls[Len(setPixelCalls)].y)
                    ELSE getOrthoViewRay(cam, setPixelCalls[Len(setPixelCalls)].x,
                                         setPixelCalls[Len(setPixelCalls)].y)
        /\ (Traced /\ setup.view = "orthographic") => vr.direct = VNeg(cam.w)
        /\ (Traced /\ setup.view = "perspective") => vr.origin = cam.eye

\* a pixel is traced in an orthographic view, from a point other than the eye
C10_OrthographicRayTraced ==
    /\ Traced
    /\ setup.view = "orthographic"
    /\ ~cam.renderPerspectiveView
    /\ vr.direct = VNeg(cam.w)
    /\ vr.origin # cam.eye

====
